---- MODULE Spec2Model ----
(***************************************************************************)
(* Hierarchical, level-by-level adversarial training of McNeuron:          *)
(*   - clip_weights            (train_one_by_one.py, train.py,             *)
(*                              train_one_by_one_morphology.py)            *)
(*   - discriminator_on_generators, wasserstein_loss                       *)
(*                             (models_joint_embedding.py)                 *)
(*   - train_model             (train_one_by_one.py)                       *)
(* Weights are integers (one unit = the default clip bound 0.01); Keras    *)
(* tensors are sequences of integers, a layer is a record of a name and a  *)
(* list of tensors, a model is a sequence of layers.                       *)
(***************************************************************************)
EXTENDS Integers, Sequences, FiniteSets, TLC

VARIABLES
    \* ---- configuration of one train_model run (its parameters) ----
    n_levels, n_epochs, batch_size, n_batch_per_epoch, d_iters,
    weight_constraint, rule, train_one_by_one, train_loss, verbose,
    n_samples,
    \* ---- local state of train_model ----
    pc, raised, level, e, batch_counter, d_iter,
    disc_model, gan_model, trainable, compiled,
    y_real, disc_loss, crit_batch, gen_call,
    n_clip, n_critic, n_gen, n_report, epochs_done, frozen_log,
    gen_models, n_house, n_plot, model_lists, locals, real_seen,
    gen_requests,
    \* ---- clip_weights applied to an arbitrary model ----
    cw_variant, cw_orig, cw_first, cw_model, cw_calls,
    \* ---- discriminator_on_generators applied to arbitrary arguments ----
    dg_args, dg_out

cfgvars == <<n_levels, n_epochs, batch_size, n_batch_per_epoch, d_iters,
             weight_constraint, rule, train_one_by_one, train_loss, verbose,
             n_samples>>
trainvars == <<pc, raised, level, e, batch_counter, d_iter, disc_model,
               gan_model, trainable, compiled, y_real, disc_loss, crit_batch,
               gen_call, n_clip, n_critic, n_gen, n_report, epochs_done,
               frozen_log, gen_models, n_house, n_plot, model_lists,
               locals, real_seen, gen_requests>>
cwvars == <<cw_variant, cw_orig, cw_first, cw_model, cw_calls>>
dgvars == <<dg_args, dg_out>>
vars == <<cfgvars, trainvars, cwvars, dgvars>>

\* ------------------------------------------------------------------------
\* Bounds of the model
\* ------------------------------------------------------------------------
MaxLevels == 2
MaxEpochs == 2
MaxBatches == 3
MaxDIters == 2
MaxBatchSize == 2
LongBatches == 26
MaxWeight == 2
MaxLayers == 2
MaxNodes == 5
MaxNoiseDim == 2

\* Placeholder for a Python name that is not bound yet, and for the parts of
\* the state a specification does not use.
None == "None"

Min(a, b) == IF a <= b THEN a ELSE b
Max(a, b) == IF a >= b THEN a ELSE b

\* ------------------------------------------------------------------------
\* clip_weights
\* ------------------------------------------------------------------------
WeightVals == {-MaxWeight, 0, MaxWeight}

\* weight_constraint arguments: the default [-0.01, 0.01] in units of 0.01,
\* a degenerate interval, and an inverted one (low > high).
ClipBounds == {<<-1, 1>>, <<0, 0>>, <<1, -1>>}

\* numpy.clip(w, a_min, a_max) = minimum(a_max, maximum(w, a_min)), elementwise
np_clip_negated(w, a_min, a_max) == [i \in DOMAIN w |-> Min(a_max, Max(-w[i], a_min))]
np_clip(w, a_min, a_max) == [i \in DOMAIN w |-> Min(a_max, Max(w[i], a_min))]

\* l.get_weights() -> [np.clip(w, ...) for w in weights] -> l.set_weights(...)
clip_layer(l, wc) ==
    [name |-> l.name,
     weights |-> [k \in DOMAIN l.weights |-> np_clip(l.weights[k], wc[1], wc[2])]]

\* Layer names are sequences of characters, as Keras generates them
\* (lower-cased class name, underscore, counter).
DenseName == <<"d", "e", "n", "s", "e", "_", "1">>
BidirectionalName ==
    <<"b", "i", "d", "i", "r", "e", "c", "t", "i", "o", "n", "a", "l", "_", "1">>
ReshapeName == <<"r", "e", "s", "h", "a", "p", "e", "_", "1">>

\* the substring test 'dense' in l.name
HasDense(name) ==
    \E i \in 1..Len(name) :
        i + 4 <= Len(name) /\ SubSeq(name, i, i + 4) = <<"d", "e", "n", "s", "e">>

\* train_one_by_one.py: every layer (the name test is commented out)
clip_weights_first_layer_only(model, wc) ==
    [k \in DOMAIN model |-> IF k = 1 THEN clip_layer(model[k], wc) ELSE model[k]]
clip_weights(model, wc) == [k \in DOMAIN model |-> clip_layer(model[k], wc)]

\* train.py: every layer
clip_weights_train(model, wc) == [k \in DOMAIN model |-> clip_layer(model[k], wc)]

\* train_one_by_one_morphology.py: only the layers whose name contains 'dense'
clip_weights_morphology(model, wc) ==
    [k \in DOMAIN model |->
        IF HasDense(model[k].name) THEN clip_layer(model[k], wc) ELSE model[k]]

ClipVariants == {"train_one_by_one", "train", "train_one_by_one_morphology"}

ApplyClip(variant, model, wc) ==
    CASE variant = "train_one_by_one" -> clip_weights(model, wc)
      [] variant = "train" -> clip_weights_train(model, wc)
      [] variant = "train_one_by_one_morphology" -> clip_weights_morphology(model, wc)

\* Keras layers as the discriminator has them: a Dense layer (kernel, bias),
\* a Bidirectional LSTM (kernel), a Reshape (no weights).
KerasLayers ==
    {[name |-> DenseName, weights |-> <<<<k>>, <<b>>>>] : k \in WeightVals, b \in WeightVals}
    \cup {[name |-> BidirectionalName, weights |-> <<<<k1, k2>>>>] :
              k1 \in WeightVals, k2 \in WeightVals}
    \cup {[name |-> ReshapeName, weights |-> <<>>]}

KerasModels == UNION {[1..n -> KerasLayers] : n \in 1..MaxLayers}

\* every element of every tensor of every layer of a model
Params(model) ==
    UNION {UNION {{<<k, t, i>> : i \in DOMAIN model[k].weights[t]} :
                      t \in DOMAIN model[k].weights} : k \in DOMAIN model}
ParamAt(model, p) == model[p[1]].weights[p[2]][p[3]]
InBounds(model, wc) ==
    \A p \in Params(model) : wc[1] <= ParamAt(model, p) /\ ParamAt(model, p) <= wc[2]

\* ------------------------------------------------------------------------
\* discriminator_on_generators (the stacked model)
\* ------------------------------------------------------------------------
\* A symbolic Keras tensor: an Input placeholder (the id is the order of
\* creation inside the call), or the output of a model applied to a list of
\* tensors.
Input(id, shape) == [op |-> "Input", id |-> id, shape |-> shape, args |-> <<>>]
Apply(m, inputs) == [op |-> m, id |-> 0, shape |-> <<>>, args |-> inputs]
NoTensor == [op |-> None, id |-> 0, shape |-> <<>>, args |-> <<>>]

NoModel == [status |-> None, inputs |-> <<>>, output |-> NoTensor]
NameError == [status |-> "NameError", inputs |-> <<>>, output |-> NoTensor]
Model(inputs, output) == [status |-> "ok", inputs |-> inputs, output |-> output]

ConditioningRules == {"mgd", "gmd"}

\* rule 'mgd', lines 545-562: P(g|m)P(m)
mgd_outputs_stale(common) ==
    [morphology |-> Apply("morphology_model", common),
     geometry |-> Apply("conditional_geometry_model",
                        Append(common, Apply("morphology_model",
                                             <<Input(0, <<1, 1>>)>>)))]
mgd_outputs(common) ==
    LET morphology_output == Apply("morphology_model", common)
    IN  [morphology |-> morphology_output,
         geometry |-> Apply("conditional_geometry_model",
                            Append(common, morphology_output))]

\* rule 'gmd', lines 564-581: P(m|g)P(g)
gmd_outputs(common, use_context) ==
    LET geometry_output == IF use_context THEN Apply("geometry_model", common)
                                          ELSE Apply("morphology_model", common)
    IN  [geometry |-> geometry_output,
         morphology |-> Apply("conditional_morphology_model",
                              Append(common, geometry_output))]

discriminator_on_generators_with_context(conditioning_rule, input_dim, n_nodes_in, n_nodes_out, use_context) ==
    LET noise_input == Input(3, <<1, input_dim>>)
        common == <<Input(4, <<n_nodes_out - 1, 3>>),
                    Input(5, <<n_nodes_out - 2, n_nodes_in>>), noise_input>>
        out == IF conditioning_rule = "mgd" THEN mgd_outputs(common)
                                            ELSE gmd_outputs(common, use_context)
    IN  IF conditioning_rule \notin ConditioningRules
        THEN NameError
        ELSE Model(common, Apply("discriminator_model", <<out.geometry, out.morphology>>))
discriminator_on_generators_lenient(conditioning_rule, input_dim, n_nodes_in, n_nodes_out, use_context) ==
    LET base == IF use_context THEN 2 ELSE 0
        noise_input == Input(base + 1, <<1, input_dim>>)
        common == IF use_context
                  THEN <<Input(base + 2, <<n_nodes_out - 1, 3>>),
                         Input(base + 3, <<n_nodes_out - 2, n_nodes_in>>), noise_input>>
                  ELSE <<noise_input>>
        out == IF conditioning_rule = "mgd" THEN mgd_outputs(common)
                                            ELSE gmd_outputs(common, use_context)
    IN  Model(common, Apply("discriminator_model", <<out.geometry, out.morphology>>))
discriminator_on_generators(conditioning_rule, input_dim, n_nodes_in, n_nodes_out, use_context) ==
    LET \* lines 533-537: Input() calls before the rebinding
        base == IF use_context THEN 2 ELSE 0
        noise_input == Input(base + 1, <<1, input_dim>>)
        \* lines 539-540: both names are bound again, unconditionally
        prior_geometry_input == Input(base + 2, <<n_nodes_out - 1, 3>>)
        prior_morphology_input == Input(base + 3, <<n_nodes_out - 2, n_nodes_in>>)
        common == IF use_context
                  THEN <<prior_geometry_input, prior_morphology_input, noise_input>>
                  ELSE <<noise_input>>
        out == IF conditioning_rule = "mgd" THEN mgd_outputs(common)
                                            ELSE gmd_outputs(common, use_context)
        \* lines 586-588
        discriminator_output ==
            Apply("discriminator_model", <<out.geometry, out.morphology>>)
    IN  IF conditioning_rule \notin ConditioningRules
        THEN NameError  \* line 587: geometry_output is not bound
        ELSE Model(common, discriminator_output)

\* what the stacked model feeds the discriminator
StackedGeometry(m) == m.output.args[1]
StackedMorphology(m) == m.output.args[2]
\* the last argument of a conditional generator call: what it is conditioned on
ConditionedOn(t) == t.args[Len(t.args)]
\* the arguments a generator call shares with the stacked model's inputs
CommonArgs(t, m) == SubSeq(t.args, 1, Len(m.inputs))

\* ------------------------------------------------------------------------
\* train_model (train_one_by_one.py)
\* ------------------------------------------------------------------------
Levels == 0..(MaxLevels - 1)
Roles == {"d_model", "g_model", "cg_model", "m_model", "cm_model"}
GeneratorRoles == Roles \ {"d_model"}
Losses == {"wasserstein_loss", "binary_crossentropy"}

\* the n_nodes argument: one node count per level, increasing
n_nodes == [l \in Levels |-> l + 3]
\* Python list indexing, where a negative index counts from the end
PyIndex(list, i) == IF i < 0 THEN list[i + MaxLevels] ELSE list[i]

\* models.discriminator(...): a freshly initialised critic; the initial
\* weights lie on both sides of the clip interval and inside it
discriminator ==
    <<[name |-> BidirectionalName, weights |-> <<<<-MaxWeight, MaxWeight>>>>],
      [name |-> ReshapeName, weights |-> <<>>],
      [name |-> DenseName, weights |-> <<<<0>>, <<MaxWeight>>>>]>>

\* d_model.train_on_batch: one gradient step moves every parameter; v is
\* the value the step leaves them at, inside the clip interval or beyond it
StepVals == {0, MaxWeight}
train_on_batch(model, v) ==
    [k \in DOMAIN model |->
        [name |-> model[k].name,
         weights |-> [t \in DOMAIN model[k].weights |->
                         [i \in DOMAIN model[k].weights[t] |-> v]]]]

AllTrainable == [r \in Roles |-> TRUE]

\* samples: a row of the persisted data, or a row a generator produced
RealSample(kind, l, idx) == [src |-> "real", kind |-> kind, level |-> l, idx |-> idx]
GenSample(kind, l, idx) == [src |-> "gen", kind |-> kind, level |-> l, idx |-> idx]

\* select = range((batch_counter - 1) * batch_size, batch_counter * batch_size)
select_per_d_iter(bc, bs) == [i \in 1..bs |-> (bc - 1) * bs + (i - 1) + d_iter]
select_from_zero(bc, bs) == [i \in 1..bs |-> i - 1]
select_epoch_offset(bc, bs) == [i \in 1..bs |-> (bc - 1) * bs + (i - 1) + e]
select(bc, bs) == [i \in 1..bs |-> (bc - 1) * bs + (i - 1)]
\* training_data['geometry']['n..'][select, :, :]
X_locations_real(l, bc, bs) ==
    [i \in 1..bs |-> RealSample("geometry", l, select(bc, bs)[i])]
\* batch_utils.get_batch on the selected morphology rows
get_batch(l, bc, bs) ==
    [i \in 1..bs |-> RealSample("morphology", l, select(bc, bs)[i])]
\* batch_utils.gen_batch: batch_size samples of the level's generators
gen_batch(l, bs) ==
    [locations |-> [i \in 1..bs |-> GenSample("geometry", l, i - 1)],
     prufer |-> [i \in 1..bs |-> GenSample("morphology", l, i - 1)]]

\* y_real = -np.ones(...), y_gen = np.ones(...), whatever train_loss is
RealLabelPositive(loss) == 1
RealLabel(loss) == -1
GenLabel(loss) == 1
ones(n, v) == [i \in 1..n |-> v]
\* np.concatenate((a, b), axis=0)
concatenate(a, b) == a \o b

NoBatch == [X_locations |-> <<>>, X_prufer |-> <<>>, y |-> <<>>]
NoContext ==
    [level |-> -1, weights |-> [r \in GeneratorRoles |-> 0],
     batch |-> [locations |-> <<>>, prufer |-> <<>>]]
NoCall == [inputs |-> <<>>, y |-> <<>>, noise |-> 0, context |-> NoContext]
UnboundEmptyLabels == [bound |-> TRUE, val |-> <<>>]
Unbound == [bound |-> FALSE, val |-> <<>>]
\* the generator roles seen with trainable = False by the generator updates
\* of the first half (lo) and of the second half (hi) of the cycles
NoLog == [lo |-> {}, hi |-> {}]

\* the role frozen by the alternation schedule, lines 372-384
CycleLen == 20
FrozenRoleSwapped(r, bc) ==
    IF bc % CycleLen \in 0..9
    THEN (IF r = "mgd" THEN "g_model" ELSE "m_model")
    ELSE (IF r = "mgd" THEN "cg_model" ELSE "cm_model")
FrozenRole(r, bc) ==
    IF bc % CycleLen \in 0..9
    THEN (IF r = "mgd" THEN "cg_model" ELSE "cm_model")
    ELSE (IF r = "mgd" THEN "g_model" ELSE "m_model")

\* the loss a model is compiled with, lines 259-273
CompiledLoss(loss) ==
    IF loss = "wasserstein_loss" THEN "wasserstein_loss" ELSE "binary_crossentropy"

ReportEvery == 25

\* models.generator(...): the four generator roles of a level; a role's
\* weights are represented by the number of gradient steps applied to them
generator == [r \in GeneratorRoles |-> 0]

\* the role whose model a call in the stacked model's graph applies
RoleOf(op) ==
    CASE op = "geometry_model" -> {"g_model"}
      [] op = "conditional_geometry_model" -> {"cg_model"}
      [] op = "morphology_model" -> {"m_model"}
      [] op = "conditional_morphology_model" -> {"cm_model"}
      [] op = "discriminator_model" -> {"d_model"}
      [] OTHER -> {}
\* the roles wired into a tensor's graph, and into a stacked model
RECURSIVE RolesIn(_)
RolesIn(t) == RoleOf(t.op) \cup UNION {RolesIn(t.args[i]) : i \in DOMAIN t.args}
WiredRoles(m) == RolesIn(m.output)

\* Keras builds a model's training function at its first train_on_batch
\* and gives it the weights of the wired models whose trainable flag is set
\* at that moment; later calls reuse the function.
NotBuilt == [built |-> FALSE, roles |-> {}]
make_train_function_all(m, flags) == [built |-> TRUE, roles |-> WiredRoles(m)]
make_train_function(m, flags) ==
    [built |-> TRUE, roles |-> {r \in WiredRoles(m) : flags[r]}]
train_function(fn, m, flags) == IF fn.built THEN fn ELSE make_train_function(m, flags)

\* stacked_model.train_on_batch: one gradient step on the weights of the
\* generator roles in the training function
stacked_step_twice(gens, fn) ==
    [r \in GeneratorRoles |-> IF r \in fn.roles THEN gens[r] + 2 ELSE gens[r]]
stacked_step(gens, fn) ==
    [r \in GeneratorRoles |-> IF r \in fn.roles THEN gens[r] + 1 ELSE gens[r]]

\* The identity of a Keras model object: the constructor call that made it
\* (level and role), and how many times it was copied since.
ListRoles == Roles \cup {"stacked_model"}
ModelObject(l, r) == [level |-> l, role |-> r, copy |-> 0]
NoObject == [level |-> -1, role |-> None, copy |-> 0]
\* the local names g_model, cg_model, m_model, cm_model, d_model, stacked_model
NoLocals == [r \in ListRoles |-> NoObject]
\* lines 184-230: the objects built for a level, as the six lists hold them
\* (refs) and as discriminator_on_generators wired them (wired)
BuiltModels(l) ==
    [refs |-> [r \in ListRoles |-> ModelObject(l, r)],
     wired |-> [r \in Roles |-> ModelObject(l, r)]]
\* line 39: clip_weights sets the weights in place and returns its argument
clip_weights_result_copy(obj) == [obj EXCEPT !.copy = @ + 1]
clip_weights_result(obj) == obj

\* the losses train_on_batch can return: a finite number, or NaN / infinity
LossVals == {"finite", "nan"}

\* Parts of the state a specification does not use
IdleTrain ==
    /\ n_levels = 0 /\ n_epochs = 0 /\ batch_size = 0 /\ n_batch_per_epoch = 0
    /\ d_iters = 0 /\ rule = None /\ train_one_by_one = FALSE
    /\ train_loss = None /\ verbose = FALSE /\ n_samples = 0
    /\ pc = "idle" /\ raised = None /\ level = 0 /\ e = 0 /\ batch_counter = 0
    /\ d_iter = 0 /\ disc_model = <<>> /\ gan_model = <<>> /\ trainable = <<>>
    /\ compiled = <<>> /\ y_real = Unbound /\ disc_loss = None
    /\ crit_batch = NoBatch /\ gen_call = NoCall
    /\ n_clip = [l \in Levels |-> 0] /\ n_critic = [l \in Levels |-> 0]
    /\ n_gen = [l \in Levels |-> 0] /\ n_report = 0
    /\ epochs_done = [l \in Levels |-> 0]
    /\ frozen_log = NoLog
    /\ gen_models = <<>> /\ n_house = [l \in Levels |-> 0]
    /\ n_plot = 0
    /\ model_lists = <<>> /\ locals = NoLocals /\ real_seen = {}
    /\ gen_requests = [l \in Levels |-> 0]
IdleClip ==
    /\ cw_variant = None /\ cw_orig = <<>> /\ cw_first = <<>> /\ cw_model = <<>>
    /\ cw_calls = 0
IdleCompose ==
    /\ dg_out = NoModel
    /\ dg_args = [conditioning_rule |-> None, input_dim |-> 0, n_nodes_in |-> 0,
                  n_nodes_out |-> 0, use_context |-> FALSE]

\* The arguments of a run: every combination of the switches, on short
\* schedules of every shape and on one long single-level schedule that runs
\* through a whole alternation cycle and reaches the reporting cadence.
InitTrain ==
    /\ rule \in ConditioningRules \cup {"dmg"}
    /\ train_one_by_one \in BOOLEAN
    /\ train_loss \in Losses
    /\ verbose \in BOOLEAN
    /\ weight_constraint = <<-1, 1>>
    /\ \/ /\ n_levels \in {1, MaxLevels}
          /\ n_epochs \in {1, MaxEpochs}
          /\ n_batch_per_epoch \in {0, 1, 2, MaxBatches}
          /\ d_iters \in {0, 1, MaxDIters}
          /\ batch_size \in {1, MaxBatchSize}
       \/ /\ n_levels = 1
          /\ n_epochs = 1
          /\ n_batch_per_epoch = LongBatches
          /\ d_iters = 1
          /\ batch_size = 1
    /\ n_samples \in {1, LongBatches * MaxBatchSize}
    /\ pc = "setup" /\ raised = None /\ level = 0 /\ e = 0 /\ batch_counter = 0
    /\ d_iter = 0 /\ disc_model = <<>> /\ gan_model = <<>> /\ trainable = <<>>
    /\ compiled = <<>> /\ y_real = Unbound /\ disc_loss = None
    /\ crit_batch = NoBatch /\ gen_call = NoCall
    /\ n_clip = [l \in Levels |-> 0] /\ n_critic = [l \in Levels |-> 0]
    /\ n_gen = [l \in Levels |-> 0] /\ n_report = 0
    /\ epochs_done = [l \in Levels |-> 0]
    /\ frozen_log = NoLog
    /\ gen_models = <<>> /\ n_house = [l \in Levels |-> 0]
    /\ n_plot = 0
    /\ model_lists = <<>> /\ locals = NoLocals /\ real_seen = {}
    /\ gen_requests = [l \in Levels |-> 0]

Init == InitTrain /\ IdleClip /\ IdleCompose

\* the current level's entry in a per-level list
Cur(list) == list[level + 1]

Raise(err) ==
    /\ pc' = "error"
    /\ raised' = err

\* for level in range(n_levels), lines 241 and 182: the first level and the
\* level after l
FirstLevelLast == n_levels - 1
FirstLevel == 0
NextLevel(l) == l + 1

\* lines 182-230: one pass of the loop that builds the models of a level
SetupLevel ==
    /\ pc = "setup"
    /\ LET stacked_model ==
               discriminator_on_generators(rule, 1, PyIndex(n_nodes, level - 1),
                                           n_nodes[level], level # 0)
       IN  IF stacked_model.status # "ok"
           THEN /\ Raise(stacked_model.status)
                /\ UNCHANGED <<level, disc_model, gan_model, trainable, gen_models,
                               model_lists>>
           ELSE /\ disc_model' = Append(disc_model, discriminator)
                /\ gan_model' = Append(gan_model, stacked_model)
                /\ trainable' = Append(trainable, AllTrainable)
                /\ gen_models' = Append(gen_models, generator)
                /\ model_lists' = Append(model_lists, BuiltModels(level))
                /\ raised' = raised
                /\ IF NextLevel(level) < n_levels
                   THEN pc' = "setup" /\ level' = NextLevel(level)
                   ELSE pc' = "level" /\ level' = FirstLevel
    /\ UNCHANGED <<e, batch_counter, d_iter, compiled, y_real, disc_loss,
                   crit_batch, gen_call, n_clip, n_critic, n_gen, n_report,
                   epochs_done, frozen_log, n_house, n_plot,
                   locals, real_seen>>
    /\ UNCHANGED <<cfgvars, cwvars, dgvars, gen_requests>>

\* line 241: the head of the training loop over the levels; line 498: return
LevelLoop ==
    /\ pc = "level"
    /\ pc' = IF level \in 0..(n_levels - 1) THEN "compile_stacked" ELSE "done"
    /\ UNCHANGED <<raised, level, e, batch_counter, d_iter, disc_model, gan_model,
                   trainable, compiled, y_real, disc_loss, crit_batch, gen_call,
                   n_clip, n_critic, n_gen, n_report, epochs_done, frozen_log, gen_models, n_house, n_plot,
                   model_lists, locals, real_seen>>
    /\ UNCHANGED <<cfgvars, cwvars, dgvars, gen_requests>>

\* lines 245-264: the local names are bound to the level's models, the
\* discriminator is frozen and the stacked model compiled
CompileStacked ==
    /\ pc = "compile_stacked"
    /\ trainable' = [trainable EXCEPT ![level + 1]["d_model"] = FALSE]
    /\ compiled' = Append(compiled,
                          [stacked |-> CompiledLoss(train_loss),
                           d_frozen |-> ~trainable'[level + 1]["d_model"],
                           d |-> None, fn |-> NotBuilt])
    /\ locals' = model_lists[level + 1].refs
    /\ pc' = "compile_d"
    /\ UNCHANGED <<raised, level, e, batch_counter, d_iter, disc_model, gan_model,
                   y_real, disc_loss, crit_batch, gen_call, n_clip, n_critic,
                   n_gen, n_report, epochs_done, frozen_log, gen_models, n_house,
                   n_plot, model_lists, real_seen>>
    /\ UNCHANGED <<cfgvars, cwvars, dgvars, gen_requests>>

\* lines 266-283: the discriminator is unfrozen and compiled; first epoch
CompileDisc ==
    /\ pc = "compile_d"
    /\ trainable' = [trainable EXCEPT ![level + 1]["d_model"] = TRUE]
    /\ compiled' = [compiled EXCEPT ![level + 1].d = CompiledLoss(train_loss)]
    /\ e' = 0
    /\ pc' = "epoch"
    /\ UNCHANGED <<raised, level, batch_counter, d_iter, disc_model, gan_model,
                   y_real, disc_loss, crit_batch, gen_call, n_clip, n_critic,
                   n_gen, n_report, epochs_done, frozen_log, gen_models, n_house, n_plot,
                   model_lists, locals, real_seen>>
    /\ UNCHANGED <<cfgvars, cwvars, dgvars, gen_requests>>

\* lines 283-285: for e in range(n_epochs): batch_counter = 1
EpochLoop ==
    /\ pc = "epoch"
    /\ IF e < n_epochs
       THEN /\ batch_counter' = 1
            /\ pc' = "while"
            /\ level' = level
       ELSE /\ level' = NextLevel(level)
            /\ pc' = "level"
            /\ batch_counter' = batch_counter
    /\ UNCHANGED <<raised, e, d_iter, disc_model, gan_model, trainable, compiled,
                   y_real, disc_loss, crit_batch, gen_call, n_clip, n_critic,
                   n_gen, n_report, epochs_done, frozen_log, gen_models, n_house, n_plot,
                   model_lists, locals, real_seen>>
    /\ UNCHANGED <<cfgvars, cwvars, dgvars, gen_requests>>

\* line 292: while batch_counter < n_batch_per_epoch
in_epoch_inclusive(bc, n) == bc <= n
in_epoch(bc, n) == bc < n
WhileLoop ==
    /\ pc = "while"
    /\ IF in_epoch(batch_counter, n_batch_per_epoch)
       THEN /\ d_iter' = 0
            /\ pc' = "critic"
            /\ UNCHANGED <<e, epochs_done>>
       ELSE /\ e' = e + 1
            /\ epochs_done' = [epochs_done EXCEPT ![level] = @ + 1]
            /\ pc' = "epoch"
            /\ d_iter' = d_iter
    /\ UNCHANGED <<raised, level, batch_counter, disc_model, gan_model, trainable,
                   compiled, y_real, disc_loss, crit_batch, gen_call, n_clip,
                   n_critic, n_gen, n_report, frozen_log, gen_models, n_house, n_plot,
                   model_lists, locals, real_seen>>
    /\ UNCHANGED <<cfgvars, cwvars, dgvars, gen_requests>>

\* line 298: for d_iter in range(d_iters)
in_range_wasserstein(i, n) == train_loss = "wasserstein_loss" /\ 0 <= i /\ i < n
in_range_inclusive(i, n) == 0 <= i /\ i <= n
in_range(i, n) == 0 <= i /\ i < n

\* lines 298-301: for d_iter in range(d_iters): clip the discriminator
ClipStep ==
    /\ pc = "critic"
    /\ IF in_range(d_iter, d_iters)
       THEN /\ disc_model' = [disc_model EXCEPT
                                 ![level + 1] = clip_weights(@, weight_constraint)]
            /\ locals' = [locals EXCEPT !["d_model"] = clip_weights_result(@)]
            /\ n_clip' = [n_clip EXCEPT ![level] = @ + 1]
            /\ pc' = "batch"
       ELSE /\ pc' = "freeze"
            /\ UNCHANGED <<disc_model, n_clip, locals>>
    /\ UNCHANGED <<raised, level, e, batch_counter, d_iter, gan_model, trainable,
                   compiled, y_real, disc_loss, crit_batch, gen_call, n_critic,
                   n_gen, n_report, epochs_done, frozen_log, gen_models, n_house,
                   n_plot, model_lists, real_seen>>
    /\ UNCHANGED <<cfgvars, cwvars, dgvars, gen_requests>>

\* a call of batch_utils.gen_batch with the given level argument (lines
\* 325-334 and 387-396), counted per level asked for
RequestGenBatchTwice(reqs, l) == [reqs EXCEPT ![l] = @ + 2]
RequestGenBatch(reqs, l) == [reqs EXCEPT ![l] = @ + 1]

\* the critic batch of lines 342-348: real first, generated second
CriticBatchGenFirst(real_loc, real_pru, yr, gen, yg) ==
    [X_locations |-> concatenate(gen.locations, real_loc),
     X_prufer |-> concatenate(gen.prufer, real_pru),
     y |-> concatenate(yg, yr)]
CriticBatch(real_loc, real_pru, yr, gen, yg) ==
    [X_locations |-> concatenate(real_loc, gen.locations),
     X_prufer |-> concatenate(real_pru, gen.prufer),
     y |-> concatenate(yr, yg)]

\* lines 303-348: the real slice, the generated batch, the labels
MakeBatch ==
    /\ pc = "batch"
    /\ IF \E i \in 1..batch_size : select(batch_counter, batch_size)[i] >= n_samples
       THEN /\ Raise("IndexError")
            /\ UNCHANGED <<y_real, crit_batch, real_seen, gen_requests>>
       ELSE LET real_loc == X_locations_real(level, batch_counter, batch_size)
                real_pru == get_batch(level, batch_counter, batch_size)
                yr == ones(Len(real_loc), RealLabel(train_loss))
                gen == gen_batch(level, batch_size)
                yg == ones(Len(gen.locations), GenLabel(train_loss))
            IN  /\ y_real' = [bound |-> TRUE, val |-> yr]
                /\ crit_batch' = CriticBatch(real_loc, real_pru, yr, gen, yg)
                /\ real_seen' = real_seen \cup
                       {[level |-> level, batch_counter |-> batch_counter,
                         X_locations |-> real_loc, X_prufer |-> real_pru]}
                /\ gen_requests' = RequestGenBatch(gen_requests, level)
                /\ pc' = "d_update"
                /\ raised' = raised
    /\ UNCHANGED <<level, e, batch_counter, d_iter, disc_model, gan_model,
                   trainable, compiled, disc_loss, gen_call, n_clip, n_critic,
                   n_gen, n_report, epochs_done, frozen_log, gen_models, n_house,
                   n_plot, model_lists, locals>>
    /\ UNCHANGED <<cfgvars, cwvars, dgvars>>

\* lines 350-357: d_model.train_on_batch([X_locations, X_prufer], y)
CriticUpdate ==
    /\ pc = "d_update"
    /\ \E v \in StepVals :
          disc_model' = [disc_model EXCEPT ![level + 1] = train_on_batch(@, v)]
    /\ disc_loss' \in LossVals
    /\ n_critic' = [n_critic EXCEPT ![level] = @ + 1]
    /\ d_iter' = d_iter + 1
    /\ pc' = "critic"
    /\ UNCHANGED <<raised, level, e, batch_counter, gan_model, trainable,
                   compiled, y_real, crit_batch, gen_call, n_clip, n_gen,
                   n_report, epochs_done, frozen_log, gen_models, n_house, n_plot,
                   model_lists, locals, real_seen>>
    /\ UNCHANGED <<cfgvars, cwvars, dgvars, gen_requests>>

\* the flags after lines 368-384
FreezeAlternating(flags) ==
    [flags EXCEPT !["d_model"] = FALSE, ![FrozenRole(rule, batch_counter)] = FALSE]
FreezeGeneratorsOnly(flags) ==
    IF train_one_by_one
    THEN [flags EXCEPT ![FrozenRole(rule, batch_counter)] = FALSE]
    ELSE flags
Freeze(flags) ==
    IF train_one_by_one
    THEN [flags EXCEPT !["d_model"] = FALSE,
                       ![FrozenRole(rule, batch_counter)] = FALSE]
    ELSE [flags EXCEPT !["d_model"] = FALSE]
\* the flags after lines 416-433
RestoreDiscOnly(flags) == [flags EXCEPT !["d_model"] = TRUE]
RestoreAfterIncrement(flags) ==
    IF train_one_by_one
    THEN [flags EXCEPT !["d_model"] = TRUE,
                       ![FrozenRole(rule, batch_counter + 1)] = TRUE]
    ELSE [flags EXCEPT !["d_model"] = TRUE]
Restore(flags) ==
    IF train_one_by_one
    THEN [flags EXCEPT !["d_model"] = TRUE,
                       ![FrozenRole(rule, batch_counter)] = TRUE]
    ELSE [flags EXCEPT !["d_model"] = TRUE]

\* lines 359-384: the progress print, then the freezes of the generator phase
FreezeStepAllLevels ==
    /\ pc = "freeze"
    /\ IF verbose /\ disc_loss = None
       THEN /\ Raise("NameError")
            /\ UNCHANGED trainable
       ELSE /\ trainable' = [k \in DOMAIN trainable |-> Freeze(trainable[k])]
            /\ pc' = "g_update"
            /\ raised' = raised
    /\ UNCHANGED <<level, e, batch_counter, d_iter, disc_model, gan_model,
                   compiled, y_real, disc_loss, crit_batch, gen_call, n_clip,
                   n_critic, n_gen, n_report, epochs_done, frozen_log, gen_models, n_house, n_plot,
                   model_lists, locals, real_seen>>
    /\ UNCHANGED <<cfgvars, cwvars, dgvars, gen_requests>>
FreezeStep ==
    /\ pc = "freeze"
    /\ IF verbose /\ disc_loss = None
       THEN /\ Raise("NameError")
            /\ UNCHANGED trainable
       ELSE /\ trainable' = [trainable EXCEPT ![level + 1] = Freeze(@)]
            /\ pc' = "g_update"
            /\ raised' = raised
    /\ UNCHANGED <<level, e, batch_counter, d_iter, disc_model, gan_model,
                   compiled, y_real, disc_loss, crit_batch, gen_call, n_clip,
                   n_critic, n_gen, n_report, epochs_done, frozen_log, gen_models, n_house, n_plot,
                   model_lists, locals, real_seen>>
    /\ UNCHANGED <<cfgvars, cwvars, dgvars, gen_requests>>

\* what a generator update adds to the log
LogFrozen(log, bc, flags) ==
    LET frozen == {r \in GeneratorRoles : ~flags[r]}
    IN  IF bc % CycleLen \in 0..9
        THEN [log EXCEPT !.lo = @ \cup frozen]
        ELSE [log EXCEPT !.hi = @ \cup frozen]

\* line 390: the level whose generators produce the context of level l
PriorLevelSame(l) == l
PriorLevel(l) == l - 1

\* lines 386-396: the generated batch of the prior level, and the state of
\* the generator roles it was sampled from
prior_gen_batch(l, bs) ==
    [level |-> PriorLevel(l),
     weights |-> gen_models[PriorLevel(l) + 1],
     batch |-> gen_batch(PriorLevel(l), bs)]

\* an exception raised by gen_batch or by stacked_model.train_on_batch
\* leaves train_model: nothing in lines 386-414 catches it
GenFailureSwallowed == pc' = "restore" /\ raised' = "TrainError"
GenFailure == Raise("TrainError")

\* lines 386-414: prior context, noise, stacked_model.train_on_batch(.., y_real)
GenUpdate ==
    /\ pc = "g_update"
    /\ gen_requests' = IF level > 0
                       THEN RequestGenBatch(gen_requests, PriorLevel(level))
                       ELSE gen_requests
    /\ \/ /\ ~y_real.bound
          /\ Raise("NameError")
          /\ UNCHANGED <<gen_call, n_gen, frozen_log, gen_models, compiled,
                         disc_model>>
       \/ /\ y_real.bound
          /\ GenFailure
          /\ UNCHANGED <<gen_call, n_gen, frozen_log, gen_models, compiled,
                         disc_model>>
       \/ /\ y_real.bound
          /\ LET fn == train_function(Cur(compiled).fn, Cur(gan_model),
                                      Cur(trainable))
             IN  /\ gen_call' =
                       [inputs |-> IF level = 0
                                   THEN <<"noise_input">>
                                   ELSE <<"X_locations_prior_gen",
                                          "X_prufer_prior_gen", "noise_input">>,
                        y |-> y_real.val,
                        noise |-> batch_size,
                        context |-> IF level > 0
                                    THEN prior_gen_batch(level, batch_size)
                                    ELSE NoContext]
                 /\ compiled' = [compiled EXCEPT ![level + 1].fn = fn]
                 /\ gen_models' = [gen_models EXCEPT
                                      ![level + 1] = stacked_step(@, fn)]
                 /\ IF "d_model" \in fn.roles
                    THEN \E v \in StepVals :
                            disc_model' = [disc_model EXCEPT
                                              ![level + 1] = train_on_batch(@, v)]
                    ELSE disc_model' = disc_model
                 /\ n_gen' = [n_gen EXCEPT ![level] = @ + 1]
                 /\ frozen_log' = LogFrozen(frozen_log, batch_counter, Cur(trainable))
                 /\ pc' = "restore"
                 /\ raised' = raised
    /\ UNCHANGED <<level, e, batch_counter, d_iter, gan_model, trainable,
                   y_real, disc_loss, crit_batch, n_clip, n_critic, n_report,
                   epochs_done, n_house, n_plot, model_lists, locals, real_seen>>
    /\ UNCHANGED <<cfgvars, cwvars, dgvars>>

\* lines 416-433: the frozen role and the discriminator are unfrozen
RestoreStep ==
    /\ pc = "restore"
    /\ trainable' = [trainable EXCEPT ![level + 1] = Restore(@)]
    /\ pc' = "house"
    /\ UNCHANGED <<raised, level, e, batch_counter, d_iter, disc_model, gan_model,
                   compiled, y_real, disc_loss, crit_batch, gen_call, n_clip,
                   n_critic, n_gen, n_report, epochs_done, frozen_log, gen_models, n_house, n_plot,
                   model_lists, locals, real_seen>>
    /\ UNCHANGED <<cfgvars, cwvars, dgvars, gen_requests>>

\* line 443: the report is due every 25 batches
ReportDueEachCycle(bc) == bc % CycleLen = 0
ReportDue(bc) == bc % ReportEvery = 0

\* lines 435-496: the counters; when verbose, the example report every 25
\* batches and the loss trace of every iteration (either may raise, and
\* nothing catches it); the write-back of the local names into the lists
HouseKeeping ==
    /\ pc = "house"
    /\ batch_counter' = batch_counter + 1
    /\ n_house' = [n_house EXCEPT ![level] = @ + 1]
    /\ n_report' = IF ReportDue(batch_counter + 1) /\ verbose
                   THEN n_report + 1 ELSE n_report
    /\ \/ /\ verbose
          /\ Raise("ReportError")
          /\ n_plot' \in (IF ReportDue(batch_counter + 1)
                          THEN {n_plot, n_plot + 1} ELSE {n_plot + 1})
          /\ UNCHANGED model_lists
       \/ /\ n_plot' = IF verbose THEN n_plot + 1 ELSE n_plot
          /\ model_lists' = [model_lists EXCEPT ![level + 1].refs = locals]
          /\ pc' = "while"
          /\ raised' = raised
    /\ UNCHANGED <<level, e, d_iter, disc_model, gan_model, trainable, compiled,
                   y_real, disc_loss, crit_batch, gen_call, n_clip, n_critic,
                   n_gen, epochs_done, frozen_log, gen_models, locals,
                   real_seen>>
    /\ UNCHANGED <<cfgvars, cwvars, dgvars, gen_requests>>

Next ==
    \/ SetupLevel
    \/ LevelLoop
    \/ CompileStacked
    \/ CompileDisc
    \/ EpochLoop
    \/ WhileLoop
    \/ ClipStep
    \/ MakeBatch
    \/ CriticUpdate
    \/ FreezeStep
    \/ GenUpdate
    \/ RestoreStep
    \/ HouseKeeping

Spec == Init /\ [][Next]_vars

\* train_model is one thread of control: while a statement is left to run,
\* the interpreter runs it
SpecLive == Init /\ [][Next]_vars /\ WF_vars(Next)

\* ------------------------------------------------------------------------
\* clip_weights on arbitrary models: each variant, applied twice in a row
\* ------------------------------------------------------------------------
InitClip ==
    /\ IdleTrain /\ IdleCompose
    /\ weight_constraint \in ClipBounds
    /\ cw_variant \in ClipVariants
    /\ cw_orig \in KerasModels
    /\ cw_model = cw_orig
    /\ cw_first = <<>>
    /\ cw_calls = 0

\* model = clip_weights(model, weight_constraint)
ClipCall ==
    /\ cw_calls < 2
    /\ cw_model' = ApplyClip(cw_variant, cw_model, weight_constraint)
    /\ cw_first' = IF cw_calls = 0
                   THEN ApplyClip(cw_variant, cw_model, weight_constraint)
                   ELSE cw_first
    /\ cw_calls' = cw_calls + 1
    /\ UNCHANGED <<cw_variant, cw_orig>>
    /\ UNCHANGED <<cfgvars, trainvars, dgvars>>

NextClip == ClipCall

SpecClip == InitClip /\ [][NextClip]_vars

\* ------------------------------------------------------------------------
\* discriminator_on_generators on arbitrary arguments
\* ------------------------------------------------------------------------
InitCompose ==
    /\ IdleTrain /\ IdleClip
    /\ weight_constraint = <<0, 0>>
    /\ dg_args \in [conditioning_rule : ConditioningRules \cup {"dmg"},
                     input_dim : 1..MaxNoiseDim,
                     n_nodes_in : 3..MaxNodes,
                     n_nodes_out : 3..MaxNodes,
                     use_context : BOOLEAN]
    /\ dg_out = NoModel

Compose ==
    /\ dg_out = NoModel
    /\ dg_out' = discriminator_on_generators(dg_args.conditioning_rule,
                                             dg_args.input_dim,
                                             dg_args.n_nodes_in,
                                             dg_args.n_nodes_out,
                                             dg_args.use_context)
    /\ UNCHANGED dg_args
    /\ UNCHANGED <<cfgvars, trainvars, cwvars>>

NextCompose == Compose

SpecCompose == InitCompose /\ [][NextCompose]_vars

\* ========================================================================
\* Properties
\* ========================================================================
TrainedLevels == 0..(n_levels - 1)
Touched(l) == n_clip[l] + n_critic[l] + n_gen[l] > 0
FrozenGenerators(flags) == {r \in GeneratorRoles : ~flags[r]}

\* C1: no clip, critic update or generator update of level l happens before
\* every level below l has completed all of its n_epochs epochs.
C1_LevelOrder ==
    \A l \in Levels : Touched(l) => \A k \in 0..(l - 1) : epochs_done[k] = n_epochs
C1_Witness ==
    /\ n_levels = 2 /\ level = 1 /\ n_clip[1] > 0 /\ n_critic[1] > 0 /\ n_gen[1] > 0
    /\ n_gen[0] > 0

\* C2: a run that returns has performed, at every level, n_epochs *
\* n_batch_per_epoch generator updates and d_iters times as many critic
\* updates (2 and 2 for one level, one epoch, d_iters = 1, two batches).
C2_BatchesPerEpoch ==
    pc = "done" =>
        \A l \in TrainedLevels :
            /\ n_gen[l] = n_epochs * n_batch_per_epoch
            /\ n_critic[l] = d_iters * n_epochs * n_batch_per_epoch

\* C3: when train_model returns after critic updates, every weight of every
\* level's discriminator lies within [low, high].
C3_ClippedOnReturn ==
    (pc = "done" /\ \A l \in TrainedLevels : n_critic[l] > 0) =>
        \A l \in TrainedLevels : InBounds(disc_model[l + 1], weight_constraint)

\* C4: with low <= high, one call of any of the three variants
\* replaces every element of every layer by min(max(element, low), high), so
\* that every parameter lies in [low, high].
C4_AllVariantsClipAll ==
    (cw_calls = 1 /\ weight_constraint[1] <= weight_constraint[2]) =>
        /\ \A p \in Params(cw_orig) :
              ParamAt(cw_model, p) =
                  Min(Max(ParamAt(cw_orig, p), weight_constraint[1]),
                      weight_constraint[2])
        /\ InBounds(cw_model, weight_constraint)

\* the layers a variant clips
ClipsLayer(variant, l) ==
    variant \in {"train_one_by_one", "train"} \/ HasDense(l.name)

\* What the three variants do (C4, per variant): with low <= high, the
\* variants of train_one_by_one.py and train.py replace every element of
\* every layer by min(max(element, low), high), so that every parameter lies
\* in [low, high]; the variant of train_one_by_one_morphology.py does so for
\* the layers whose name contains 'dense' and leaves every other layer's
\* parameters unchanged. No variant changes the layers, their names or the
\* shapes of their tensors.
ClipPostcondition ==
    (cw_calls = 1 /\ weight_constraint[1] <= weight_constraint[2]) =>
        /\ Len(cw_model) = Len(cw_orig)
        /\ Params(cw_model) = Params(cw_orig)
        /\ \A k \in DOMAIN cw_orig : cw_model[k].name = cw_orig[k].name
        /\ \A p \in Params(cw_orig) :
              ParamAt(cw_model, p) =
                  IF ClipsLayer(cw_variant, cw_orig[p[1]])
                  THEN Min(Max(ParamAt(cw_orig, p), weight_constraint[1]),
                           weight_constraint[2])
                  ELSE ParamAt(cw_orig, p)
        /\ cw_variant # "train_one_by_one_morphology"
               => InBounds(cw_model, weight_constraint)
ClipPostconditionWitness ==
    /\ cw_calls = 1 /\ cw_variant = "train_one_by_one"
    /\ weight_constraint = <<-1, 1>>
    /\ Len(cw_orig) = 2
    /\ cw_orig[1].name = BidirectionalName /\ cw_orig[2].name = DenseName
    /\ ParamAt(cw_orig, <<1, 1, 1>>) = MaxWeight
    /\ ParamAt(cw_orig, <<2, 2, 1>>) = -MaxWeight
    /\ ParamAt(cw_orig, <<2, 1, 1>>) = 0
    /\ cw_model # cw_orig

\* C5: clipping twice with the same bounds leaves the weights exactly as
\* after the first clip, for every model and every pair of bounds.
C5_Idempotent == cw_calls = 2 => cw_model = cw_first
C5_Witness ==
    /\ cw_calls = 2 /\ cw_variant = "train_one_by_one"
    /\ cw_first # cw_orig
    /\ \E p \in Params(cw_orig) : ParamAt(cw_orig, p) = -MaxWeight
    /\ \E p \in Params(cw_orig) : ParamAt(cw_orig, p) = MaxWeight

\* C6: under the Wasserstein loss the batch of every critic update is
\* batch_size real samples labelled -1 followed by batch_size generated
\* samples labelled +1, in the geometry, the topology and the label tensor.
C6_CriticBatch ==
    (pc = "d_update" /\ train_loss = "wasserstein_loss") =>
        /\ Len(crit_batch.y) = 2 * batch_size
        /\ Len(crit_batch.X_locations) = 2 * batch_size
        /\ Len(crit_batch.X_prufer) = 2 * batch_size
        /\ \A i \in 1..batch_size :
              /\ crit_batch.y[i] = -1
              /\ crit_batch.X_locations[i].src = "real"
              /\ crit_batch.X_locations[i].kind = "geometry"
              /\ crit_batch.X_prufer[i].src = "real"
              /\ crit_batch.X_prufer[i].kind = "morphology"
        /\ \A i \in (batch_size + 1)..(2 * batch_size) :
              /\ crit_batch.y[i] = 1
              /\ crit_batch.X_locations[i].src = "gen"
              /\ crit_batch.X_locations[i].kind = "geometry"
              /\ crit_batch.X_prufer[i].src = "gen"
              /\ crit_batch.X_prufer[i].kind = "morphology"
C6_Witness ==
    /\ pc = "d_update" /\ train_loss = "wasserstein_loss"
    /\ batch_size = MaxBatchSize /\ level = 1 /\ batch_counter = 2

\* C7: the labels of the critic batch match the active loss: real = -1 and
\* generated = +1 under the Wasserstein loss, real = 0 and generated = 1
\* under binary cross-entropy.
C7_LabelsMatchLoss ==
    pc = "d_update" =>
        /\ \A i \in 1..batch_size :
              crit_batch.y[i] = IF train_loss = "wasserstein_loss" THEN -1 ELSE 0
        /\ \A i \in (batch_size + 1)..(2 * batch_size) : crit_batch.y[i] = 1

\* C8: under 'mgd', with and without context, the conditional geometry
\* generator is fed the output the morphology generator produced from the
\* stacked model's own inputs, and the discriminator gets exactly that
\* (geometry, topology) pair.
C8_MgdWiring ==
    (dg_out.status = "ok" /\ dg_args.conditioning_rule = "mgd") =>
        /\ dg_out.output.op = "discriminator_model"
        /\ Len(dg_out.output.args) = 2
        /\ StackedMorphology(dg_out).op = "morphology_model"
        /\ StackedMorphology(dg_out).args = dg_out.inputs
        /\ StackedGeometry(dg_out).op = "conditional_geometry_model"
        /\ CommonArgs(StackedGeometry(dg_out), dg_out) = dg_out.inputs
        /\ Len(StackedGeometry(dg_out).args) = Len(dg_out.inputs) + 1
        /\ ConditionedOn(StackedGeometry(dg_out)) = StackedMorphology(dg_out)
C8_Witness ==
    /\ dg_out.status = "ok" /\ dg_args.conditioning_rule = "mgd"
    /\ dg_args.use_context /\ Len(dg_out.inputs) = 3
C8_WitnessNoContext ==
    /\ dg_out.status = "ok" /\ dg_args.conditioning_rule = "mgd"
    /\ ~dg_args.use_context /\ Len(dg_out.inputs) = 1

\* C9: under 'gmd', with and without context, the geometry is the output of
\* the unconditioned geometry generator and the conditional morphology
\* generator is fed that output of the same forward pass.
C9_GmdWiring ==
    (dg_out.status = "ok" /\ dg_args.conditioning_rule = "gmd") =>
        /\ StackedGeometry(dg_out).op = "geometry_model"
        /\ StackedGeometry(dg_out).args = dg_out.inputs
        /\ StackedMorphology(dg_out).op = "conditional_morphology_model"
        /\ CommonArgs(StackedMorphology(dg_out), dg_out) = dg_out.inputs
        /\ ConditionedOn(StackedMorphology(dg_out)) = StackedGeometry(dg_out)

\* C10: with alternation, every generator update of steps 0-9 of a 20-step
\* cycle runs with exactly one generator role frozen, every update of steps
\* 10-19 with exactly one other role frozen, and outside the generator phase
\* (between outer iterations) every generator role is trainable.
InGeneratorPhase == pc \in {"g_update", "restore"}
BetweenIterations ==
    pc \in {"level", "compile_stacked", "compile_d", "epoch", "while", "critic",
            "batch", "d_update", "freeze", "house", "done"}
ConditionalRole(r) == IF r = "mgd" THEN "cg_model" ELSE "cm_model"
UnconditionedRole(r) == IF r = "mgd" THEN "m_model" ELSE "g_model"
FirstHalf(bc) == bc % CycleLen \in 0..9
\* a generator update has just been made with the flags of the current level
AfterGenUpdate == pc = "restore"

\* C11: with alternation, every generator update runs with exactly one
\* generator role frozen, and that role is one of the two the rule wires
\* into the stacked model (m_model or cg_model under 'mgd', g_model or
\* cm_model under 'gmd').
C11_FrozenRoleIsWired ==
    (train_one_by_one /\ AfterGenUpdate) =>
        /\ Cardinality(FrozenGenerators(Cur(trainable))) = 1
        /\ FrozenGenerators(Cur(trainable))
               \subseteq {ConditionalRole(rule), UnconditionedRole(rule)}
        /\ FrozenGenerators(Cur(trainable)) \subseteq WiredRoles(Cur(gan_model))

InCriticPhase == pc \in {"critic", "batch", "d_update"}
C13_FlagsRestored ==
    (pc = "while" \/ InCriticPhase \/ pc = "done") =>
        \A l \in 1..Len(trainable) : trainable[l] = AllTrainable
C13_Witness ==
    /\ train_one_by_one /\ pc = "critic" /\ d_iter = 0
    /\ batch_counter = (CycleLen \div 2) + 1
    /\ frozen_log.lo # {} /\ frozen_log.hi # {}
C13_WitnessReturn ==
    /\ pc = "done" /\ n_levels = 2 /\ n_gen[0] > 0 /\ n_gen[1] > 0

\* C14: the stacked model is compiled, and every generator update is made,
\* while the level's discriminator has trainable = False; every critic
\* update is made while it has trainable = True.
C14_DiscFrozenForStacked ==
    [][/\ Len(compiled') > Len(compiled) => compiled'[Len(compiled')].d_frozen
       /\ n_gen' # n_gen => ~Cur(trainable)["d_model"]
       /\ n_critic' # n_critic => Cur(trainable)["d_model"]]_vars
C14_Witness ==
    /\ Len(compiled) = 2 /\ level = 1 /\ n_gen[1] > 0 /\ n_critic[1] > 0

\* C15: the weights of a discriminator change only in the critic phase (by
\* the clip or by the critic update), never in the generator phase or in
\* housekeeping; the weights of the generator roles do not change in the
\* critic phase (they change only in the generator update).
WeightsChanged(old, new) == \E l \in DOMAIN old : new[l] # old[l]
C15_WeightFrames ==
    [][/\ WeightsChanged(disc_model, disc_model') => pc \in {"critic", "d_update"}
       /\ WeightsChanged(gen_models, gen_models') => pc = "g_update"]_vars
C15_Witness ==
    /\ pc = "house" /\ level = 1
    /\ disc_model[1] # discriminator /\ disc_model[2] # discriminator
    /\ \E r \in GeneratorRoles : gen_models[2][r] > 0

\* C16: every outer iteration makes exactly one gradient step in its
\* generator phase, and the step is one step of the stacked model: it moves
\* the generator roles of the stacked model's training function by one step
\* each, and no role that is not wired into the stacked model, at level 0
\* and above.
InLevelLoop ==
    pc \in {"while", "critic", "batch", "d_update", "freeze", "g_update",
            "restore", "house"}
C16_OneStackedStep ==
    /\ InLevelLoop =>
           n_gen[level] = n_house[level] + (IF pc \in {"restore", "house"} THEN 1 ELSE 0)
    /\ \A l \in 1..Len(gen_models) : \A r \in GeneratorRoles :
           gen_models[l][r] =
               IF l <= Len(compiled) /\ r \in compiled[l].fn.roles
               THEN n_gen[l - 1] ELSE 0
    /\ \A l \in 1..Len(compiled) :
           compiled[l].fn.roles \subseteq WiredRoles(gan_model[l]) \ {"d_model"}
C16_Witness ==
    /\ pc = "house" /\ level = 1 /\ n_gen[1] = 2 /\ n_gen[0] = 2
    /\ \E r \in GeneratorRoles : gen_models[2][r] = 2

\* C17: clipping is applied to the current level's discriminator only, once
\* per critic update and right before it: the clips of a level number its
\* critic updates, plus the one clip whose update is still to come (or was
\* cut off by the failure of the real-batch request), every critic update
\* starts from clipped weights, and a clip changes no other model.
ClipPending(l) ==
    /\ l = level
    /\ pc \in {"batch", "d_update"} \/ (pc = "error" /\ raised = "IndexError")
C17_ClipPerCriticUpdate ==
    /\ [](\A l \in Levels :
             n_clip[l] = n_critic[l] + (IF ClipPending(l) THEN 1 ELSE 0))
    /\ [](pc = "d_update" => InBounds(Cur(disc_model), weight_constraint))
    /\ [][n_clip' # n_clip =>
             /\ n_clip' = [n_clip EXCEPT ![level] = @ + 1]
             /\ gen_models' = gen_models
             /\ \A l \in DOMAIN disc_model :
                    l # level + 1 => disc_model'[l] = disc_model[l]]_vars
C17_Witness ==
    /\ pc = "d_update" /\ level = 1 /\ n_clip[1] = 2 /\ n_critic[1] = 1
    /\ n_clip[0] = n_critic[0] /\ n_clip[0] > 0
    /\ disc_model[1] # disc_model[2]

\* C18: within a level the phases follow the cycle critic phase (d_iters
\* critic updates), generator phase, housekeeping: the loop head and the
\* critic phase are reached with as many generator updates as housekeeping
\* steps and d_iters critic updates for each of them, the generator phase
\* after d_iters more critic updates, housekeeping after one more generator
\* update; every epoch starts at the critic phase of its first batch, and a
\* level is left only after the housekeeping of the last iteration of its
\* last epoch.
IterationsPerEpoch == Max(n_batch_per_epoch - 1, 0)
C18_PhaseCycle ==
    /\ (pc = "while" \/ InCriticPhase) =>
           /\ n_gen[level] = n_house[level]
           /\ n_critic[level] =
                  d_iters * n_house[level] + (IF pc = "while" THEN 0 ELSE d_iter)
           /\ d_iter <= d_iters
    /\ pc \in {"freeze", "g_update"} =>
           /\ n_gen[level] = n_house[level]
           /\ n_critic[level] = d_iters * (n_house[level] + 1)
    /\ pc \in {"restore", "house"} =>
           /\ n_gen[level] = n_house[level] + 1
           /\ n_critic[level] = d_iters * n_gen[level]
    /\ pc = "while" =>
           n_house[level] = e * IterationsPerEpoch + batch_counter - 1
    /\ \A l \in TrainedLevels :
           ((pc \notin {"setup", "error"} /\ l < level) \/ pc = "done") =>
               /\ epochs_done[l] = n_epochs
               /\ n_house[l] = n_epochs * IterationsPerEpoch
               /\ n_gen[l] = n_house[l]
               /\ n_critic[l] = d_iters * n_house[l]
C18_Witness ==
    /\ pc = "house" /\ level = 1 /\ e = 1 /\ d_iters = MaxDIters
    /\ n_house[1] = IterationsPerEpoch + 1 /\ n_house[0] = 2 * IterationsPerEpoch
    /\ IterationsPerEpoch = 2

\* C19: a failure of the reporting and visualisation calls of housekeeping
\* never ends the run.
C19_ReportFailureSwallowed == ~(pc = "error" /\ raised = "ReportError")

\* C20: with a conditioning rule other than 'mgd' and 'gmd' the run fails
\* while the first stacked model is built: no stacked model exists, nothing
\* is compiled, and no clip, critic update or generator update is made at
\* any level.
C20_InvalidRuleRejected ==
    rule \notin ConditioningRules =>
        /\ pc \in {"setup", "error"}
        /\ pc = "error" => raised = "NameError"
        /\ gan_model = <<>> /\ compiled = <<>>
        /\ \A l \in Levels : ~Touched(l) /\ n_house[l] = 0
        /\ \A l \in DOMAIN disc_model : disc_model[l] = discriminator
C20_Witness ==
    /\ rule = "dmg" /\ pc = "error" /\ raised = "NameError" /\ n_levels = MaxLevels

\* C21: once a critic update has returned a non-finite loss, the run makes
\* no further critic or generator update.
C21_NonFiniteSurfaced ==
    [][disc_loss = "nan" => (n_critic' = n_critic /\ n_gen' = n_gen)]_vars

\* C22: when batch_counter * batch_size exceeds the samples of the level,
\* the request for the real batch fails with the bounds error, the critic
\* update of that iteration is not made, and the run ends there; no critic
\* update is ever made from a slice that exceeds the samples.
SliceExceeds == batch_counter * batch_size > n_samples
C22_BoundsErrorFatal ==
    /\ [](pc = "d_update" => ~SliceExceeds)
    /\ [](raised = "IndexError" =>
             /\ pc = "error" /\ SliceExceeds
             /\ n_critic[level] = n_clip[level] - 1)
    /\ [][(pc = "batch" /\ SliceExceeds) =>
             (pc' = "error" /\ raised' = "IndexError" /\ n_critic' = n_critic)]_vars
    /\ [][pc # "error"]_vars
C22_Witness ==
    /\ pc = "error" /\ raised = "IndexError" /\ batch_counter = 2
    /\ n_critic[0] > 0 /\ n_gen[0] > 0

\* C23: a failure of the generator update or of the sampling of the prior
\* context ends the run where it happens, with the discriminator (and the
\* role the alternation froze) still frozen and the failed update not
\* made; no critic or generator update follows it.
C23_GenFailureFatal ==
    /\ [](raised = "TrainError" =>
             /\ pc = "error"
             /\ ~Cur(trainable)["d_model"]
             /\ train_one_by_one => Cardinality(FrozenGenerators(Cur(trainable))) = 1
             /\ n_gen[level] = n_house[level])
    /\ [][raised = "TrainError" => (n_critic' = n_critic /\ n_gen' = n_gen)]_vars
C23_Witness ==
    /\ pc = "error" /\ raised = "TrainError" /\ level = 1 /\ train_one_by_one
    /\ n_gen[1] > 0 /\ FrozenGenerators(Cur(trainable)) # {}

C25_RealBatchDeterministic ==
    /\ pc = "d_update" =>
           \A i \in 1..batch_size :
               /\ crit_batch.X_locations[i] =
                      RealSample("geometry", level,
                                 (batch_counter - 1) * batch_size + i - 1)
               /\ crit_batch.X_prufer[i] =
                      RealSample("morphology", level,
                                 (batch_counter - 1) * batch_size + i - 1)
    /\ \A a \in real_seen : \A b \in real_seen :
           (a.level = b.level /\ a.batch_counter = b.batch_counter) => a = b
C25_Witness ==
    /\ pc = "d_update" /\ e = 1 /\ batch_counter = 2 /\ level = 1
    /\ batch_size = MaxBatchSize /\ d_iter = 1
    /\ Cardinality(real_seen) = 4

\* C26: in every generator update the target given to the stacked model is
\* the real label of the critic batch, one entry per sample of the noise
\* batch, which is batch_size entries; the label is -1 (whatever the loss,
\* so under the Wasserstein loss too), at level 0 and above.
C26_GeneratorTarget ==
    AfterGenUpdate =>
        /\ gen_call.noise = batch_size
        /\ Len(gen_call.y) = gen_call.noise
        /\ \A i \in 1..batch_size :
               gen_call.y[i] = -1 /\ gen_call.y[i] = crit_batch.y[i]
C26_Witness ==
    /\ AfterGenUpdate /\ level = 1 /\ batch_size = MaxBatchSize
    /\ train_loss = "wasserstein_loss" /\ n_gen[0] > 0
    /\ Len(gen_call.y) = MaxBatchSize

\* C27: the stacked model of level 0, built without context under either
\* rule, has one input, the noise of shape (1, input_dim), every placeholder
\* its graph reads is that input, and the generator update of level 0 passes
\* exactly one input, the noise, and no prior context.
RECURSIVE LeavesIn(_)
LeavesIn(t) ==
    IF t.op = "Input" THEN {t}
    ELSE UNION {LeavesIn(t.args[i]) : i \in DOMAIN t.args}
C27_Level0NoiseOnly ==
    /\ Len(gan_model) > 0 =>
           /\ gan_model[1].status = "ok"
           /\ Len(gan_model[1].inputs) = 1
           /\ gan_model[1].inputs[1].op = "Input"
           /\ gan_model[1].inputs[1].shape = <<1, 1>>
           /\ LeavesIn(gan_model[1].output) = {gan_model[1].inputs[1]}
    /\ (AfterGenUpdate /\ level = 0) =>
           /\ gen_call.inputs = <<"noise_input">>
           /\ Len(gen_call.inputs) = Len(gan_model[1].inputs)
           /\ gen_call.context = NoContext
C27_Witness ==
    /\ AfterGenUpdate /\ level = 0 /\ rule = "gmd"
    /\ n_levels = MaxLevels /\ Len(gan_model[1].inputs) = 1
C27_WitnessMgd ==
    /\ AfterGenUpdate /\ level = 0 /\ rule = "mgd"
    /\ Len(gan_model[1].inputs) = 1

\* C28: with use_context the stacked model's inputs are the prior geometry,
\* the prior topology and the noise, in that order, the two context inputs
\* with the shapes of the prior level's sample: (n_nodes_in - 1, 3) and
\* (n_nodes_in - 2, n_nodes_in).
C28_ContextInputs ==
    (dg_out.status = "ok" /\ dg_args.use_context) =>
        /\ Len(dg_out.inputs) = 3
        /\ dg_out.inputs[1].shape = <<dg_args.n_nodes_in - 1, 3>>
        /\ dg_out.inputs[2].shape = <<dg_args.n_nodes_in - 2, dg_args.n_nodes_in>>
        /\ dg_out.inputs[3].shape = <<1, dg_args.input_dim>>

\* C29: from the end of setup until train_model returns, every per-role
\* level list holds n_levels entries, each the object built at setup for
\* that level and role (never a copy), the names the level loop works with
\* are those objects, and the discriminator that is clipped and updated is
\* the object wired into the stacked model of the level.
C29_SameObjects ==
    /\ pc \notin {"setup", "error"} =>
           /\ Len(model_lists) = n_levels
           /\ Len(disc_model) = n_levels /\ Len(gan_model) = n_levels
           /\ Len(gen_models) = n_levels /\ Len(trainable) = n_levels
           /\ \A l \in 1..n_levels :
                  /\ model_lists[l] = BuiltModels(l - 1)
                  /\ \A r \in Roles : model_lists[l].refs[r] = model_lists[l].wired[r]
    /\ (InLevelLoop /\ pc # "compile") =>
           /\ locals = model_lists[level + 1].refs
           /\ locals["d_model"] = model_lists[level + 1].wired["d_model"]
C29_Witness ==
    /\ pc = "done" /\ n_levels = MaxLevels
    /\ n_clip[MaxLevels - 1] > 0 /\ n_house[MaxLevels - 1] > 0
    /\ locals["d_model"] = model_lists[MaxLevels].wired["d_model"]

\* C30 as stated: in every housekeeping step the reporting and plotting
\* calls are made if and only if the incremented batch counter is a
\* multiple of 25.
Visualized == n_report' # n_report \/ n_plot' # n_plot
OutsideC31 ==
    \/ rule \notin ConditioningRules
    \/ raised \in {"TrainError", "ReportError", "IndexError"}
C31_Returns ==
    /\ <>(pc = "done" \/ OutsideC31)
    /\ [][pc = "house" => batch_counter' > batch_counter]_vars

\* C32: the operation sequence of a run is a function of the schedule, the
\* rule, the switches and the data size alone.  The position after every
\* step that does not raise is the one written here from the counters and
\* the schedule, the steps that raise on their own are those written here,
\* and each step performs the operation of its position; neither the loss
\* kind, nor a loss value, nor a sample, nor a weight is read.
Position == [pc |-> pc, level |-> level, e |-> e, batch_counter |-> batch_counter, d_iter |-> d_iter]
PositionAfter ==
    CASE pc = "setup" ->
           IF level + 1 < n_levels
           THEN [Position EXCEPT !.level = level + 1]
           ELSE [Position EXCEPT !.pc = "level", !.level = 0]
      [] pc = "level" ->
           [Position EXCEPT !.pc = IF level < n_levels THEN "compile_stacked"
                                                       ELSE "done"]
      [] pc = "compile_stacked" -> [Position EXCEPT !.pc = "compile_d"]
      [] pc = "compile_d" -> [Position EXCEPT !.pc = "epoch", !.e = 0]
      [] pc = "epoch" ->
           IF e < n_epochs
           THEN [Position EXCEPT !.pc = "while", !.batch_counter = 1]
           ELSE [Position EXCEPT !.pc = "level", !.level = level + 1]
      [] pc = "while" ->
           IF batch_counter < n_batch_per_epoch
           THEN [Position EXCEPT !.pc = "critic", !.d_iter = 0]
           ELSE [Position EXCEPT !.pc = "epoch", !.e = e + 1]
      [] pc = "critic" ->
           [Position EXCEPT !.pc = IF d_iter < d_iters THEN "batch" ELSE "freeze"]
      [] pc = "batch" -> [Position EXCEPT !.pc = "d_update"]
      [] pc = "d_update" -> [Position EXCEPT !.pc = "critic", !.d_iter = d_iter + 1]
      [] pc = "freeze" -> [Position EXCEPT !.pc = "g_update"]
      [] pc = "g_update" -> [Position EXCEPT !.pc = "restore"]
      [] pc = "restore" -> [Position EXCEPT !.pc = "house"]
      [] pc = "house" ->
           [Position EXCEPT !.pc = "while", !.batch_counter = batch_counter + 1]
      [] OTHER -> Position
RaisesByItself ==
    \/ pc = "setup" /\ rule \notin ConditioningRules
    \/ pc = "batch" /\ batch_counter * batch_size > n_samples
    \/ pc = "freeze" /\ verbose /\ d_iters = 0
    \/ pc = "g_update" /\ d_iters = 0
CollaboratorRaises ==
    \/ pc = "g_update" /\ d_iters > 0 /\ raised' = "TrainError"
    \/ pc = "house" /\ verbose /\ raised' = "ReportError"
Increment(f, g, l) == g = [f EXCEPT ![l] = @ + 1]
C32_LossBlindSchedule ==
    /\ [][pc' # "error" => Position' = PositionAfter]_vars
    /\ [][RaisesByItself => pc' = "error"]_vars
    /\ [][pc' = "error" => (RaisesByItself \/ CollaboratorRaises)]_vars
    /\ [][/\ IF pc = "critic" /\ pc' = "batch"
             THEN Increment(n_clip, n_clip', level) ELSE n_clip' = n_clip
          /\ IF pc = "d_update"
             THEN Increment(n_critic, n_critic', level) ELSE n_critic' = n_critic
          /\ IF pc = "g_update" /\ pc' = "restore"
             THEN Increment(n_gen, n_gen', level) ELSE n_gen' = n_gen
          /\ IF pc = "house"
             THEN Increment(n_house, n_house', level) ELSE n_house' = n_house
          /\ (pc \notin {"compile_stacked", "compile_d"}) => compiled'
                 = [k \in DOMAIN compiled |-> [compiled[k] EXCEPT !.fn = compiled'[k].fn]]]_vars
    /\ [](\A k \in DOMAIN compiled :
             compiled[k].stacked = CompiledLoss(train_loss)
             /\ compiled[k].d \in {None, CompiledLoss(train_loss)})
C32_Witness ==
    /\ pc = "done" /\ train_loss = "binary_crossentropy" /\ n_levels = MaxLevels
    /\ n_epochs = MaxEpochs /\ d_iters = MaxDIters /\ disc_loss = "nan"
    /\ n_gen[MaxLevels - 1] > 0 /\ n_critic[MaxLevels - 1] > 0
C32_WitnessWasserstein ==
    /\ pc = "done" /\ train_loss = "wasserstein_loss" /\ n_levels = MaxLevels
    /\ n_epochs = MaxEpochs /\ d_iters = MaxDIters /\ disc_loss = "finite"
    /\ n_gen[MaxLevels - 1] > 0 /\ n_critic[MaxLevels - 1] > 0

\* C33: at every request for a real batch the batch counter is at least 1
\* and below n_batch_per_epoch, every epoch starts it at 1 again, no sample
\* index above (n_batch_per_epoch - 1) * batch_size - 1 is ever read, and a
\* level that finished an epoch with critic updates has read that index.
IndicesRead(l) ==
    UNION {{r.X_locations[i].idx : i \in DOMAIN r.X_locations} :
               r \in {q \in real_seen : q.level = l}}
HighestIndex == (n_batch_per_epoch - 1) * batch_size - 1
ContextRequests(l) ==
    IF l + 1 \in Levels
    THEN n_gen[l + 1] + (IF raised = "TrainError" /\ level = l + 1 THEN 1 ELSE 0)
    ELSE 0
CriticRequests(l) == n_critic[l] + (IF pc = "d_update" /\ level = l THEN 1 ELSE 0)
C34_GenBatchRequests ==
    /\ [](\A l \in Levels : gen_requests[l] = CriticRequests(l) + ContextRequests(l))
    /\ [][(pc = "batch" /\ pc' = "d_update") =>
             Increment(gen_requests, gen_requests', level)]_vars
    /\ [][(pc = "g_update" /\ level > 0) =>
             Increment(gen_requests, gen_requests', level - 1)]_vars
    /\ [][(pc = "g_update" /\ level = 0) => gen_requests' = gen_requests]_vars
    /\ [][(pc \notin {"batch", "g_update"}) => gen_requests' = gen_requests]_vars
C34_Witness ==
    /\ pc = "done" /\ n_levels = MaxLevels /\ d_iters = MaxDIters
    /\ n_gen[0] > 0 /\ n_gen[1] > 0
    /\ gen_requests[0] = n_critic[0] + n_gen[1]
    /\ gen_requests[1] = n_critic[1]

\* C35: from the compile of a level to the end of its last epoch, no step
\* changes the weights, the flags, the compiled state, the stacked model or
\* the list entries of any other level.
AtLevel ==
    InLevelLoop \/ pc \in {"compile_stacked", "compile_d", "epoch"}
OtherLevelsUntouched ==
    \A k \in DOMAIN disc_model :
        k # level + 1 =>
            /\ disc_model'[k] = disc_model[k]
            /\ gen_models'[k] = gen_models[k]
            /\ trainable'[k] = trainable[k]
            /\ gan_model'[k] = gan_model[k]
            /\ model_lists'[k] = model_lists[k]
            /\ k \in DOMAIN compiled => compiled'[k] = compiled[k]
C35_OtherLevelsFrame == [][AtLevel => OtherLevelsUntouched]_vars
C35_Witness ==
    /\ pc = "house" /\ level = 1 /\ n_levels = MaxLevels
    /\ n_gen[1] > 0 /\ n_critic[1] > 0 /\ n_gen[0] > 0
    /\ gen_models[2] # generator /\ gen_models[1] # generator
C35_WitnessLower ==
    /\ pc = "house" /\ level = 0 /\ n_levels = MaxLevels
    /\ n_gen[0] > 0 /\ n_critic[0] > 0 /\ gen_models[2] = generator

\* C36: with alternation off every generator role of every level is
\* trainable in every state of the run, and no step changes such a flag;
\* the discriminator's flag is the only one that is set to False.
C36_NoGeneratorFrozen ==
    /\ [](~train_one_by_one =>
             \A k \in DOMAIN trainable : \A r \in GeneratorRoles : trainable[k][r])
    /\ [][(~train_one_by_one /\ AtLevel) =>
             \A k \in DOMAIN trainable : \A r \in GeneratorRoles :
                 trainable'[k][r] = trainable[k][r]]_vars
    /\ [](~train_one_by_one => (frozen_log.lo = {} /\ frozen_log.hi = {}))
C36_Witness ==
    /\ ~train_one_by_one /\ pc = "restore" /\ level = 1
    /\ ~Cur(trainable)["d_model"] /\ n_gen[1] > 0
    /\ batch_counter = 2

\* C37: inside one outer iteration the batch counter does not change, the
\* real rows of a critic update after the first are those of the update
\* before it, every critic update has a generated batch requested for it
\* alone, and housekeeping moves the counter on by one.
RealRows(b) == SubSeq(b.X_locations, 1, batch_size)
InOuterIteration ==
    pc \in {"critic", "batch", "d_update", "freeze", "g_update", "restore"}
C37_SameSlicePerIteration ==
    /\ [][InOuterIteration => batch_counter' = batch_counter]_vars
    /\ [][(pc = "batch" /\ pc' = "d_update" /\ d_iter > 0) =>
             RealRows(crit_batch') = RealRows(crit_batch)]_vars
    /\ [][(pc = "batch" /\ pc' = "d_update") =>
             (gen_requests'[level] = gen_requests[level] + 1 /\ y_real'.bound)]_vars
    /\ [][pc = "d_update" => gen_requests' = gen_requests]_vars
    /\ [][pc = "house" => batch_counter' = batch_counter + 1]_vars
C37_Witness ==
    /\ pc = "d_update" /\ d_iter = MaxDIters - 1 /\ d_iters = MaxDIters
    /\ batch_counter = 2 /\ batch_size = MaxBatchSize
    /\ n_critic[level] = 2 * MaxDIters - 1
    /\ gen_requests[level] = 2 * MaxDIters

\* C38: with d_iters = 0 no clip, no critic update and no generator update
\* is ever made and every weight stays as built; with more than one batch
\* per epoch the run never returns and never gets past the generator update
\* of the first outer iteration, where it ends with the name error.
C38_NoCriticNoTarget ==
    d_iters = 0 =>
        /\ \A l \in Levels : n_clip[l] = 0 /\ n_critic[l] = 0 /\ n_gen[l] = 0
        /\ \A k \in DOMAIN disc_model : disc_model[k] = discriminator
        /\ \A k \in DOMAIN gen_models : gen_models[k] = generator
        /\ pc \notin {"batch", "d_update", "restore", "house"}
        /\ n_batch_per_epoch > 1 => pc # "done"
        /\ (pc = "error" /\ rule \in ConditioningRules) =>
               /\ raised = "NameError" /\ n_batch_per_epoch > 1
               /\ level = 0 /\ e = 0 /\ batch_counter = 1
C38_Witness ==
    /\ d_iters = 0 /\ ~verbose /\ pc = "error" /\ raised = "NameError"
    /\ rule \in ConditioningRules /\ n_levels = MaxLevels
    /\ ~Cur(trainable)["d_model"]
C38_WitnessVerbose ==
    /\ d_iters = 0 /\ verbose /\ pc = "error" /\ raised = "NameError"
    /\ rule \in ConditioningRules
    /\ Cur(trainable)["d_model"]

====
